---- MODULE Spec2Model ----
(***************************************************************************)
(* Bitcoin_tracker.py: the price service of BitcoinConverterBinance        *)
(* (get_current_price, _get_alternative_price, get_historical_data,        *)
(* get_detailed_price_info), its presenters and the menu loop of           *)
(* show_simple_menu.  The exchange's HTTP responses and the text the user  *)
(* types are the nondeterministic inputs.                                  *)
(*                                                                         *)
(* Prices are integers (an even number of half units, so that the midpoint *)
(* of two prices is exact); a quotient that Python computes as a float is  *)
(* kept as the fraction [n, d].                                            *)
(***************************************************************************)
EXTENDS Integers, Sequences, FiniteSets, TLC

VARIABLES
    pc,                  \* where the terminal session stands
    option,              \* the last text read at "Select an option (1-5): "
    price,               \* show_simple_menu's local price
    screen,              \* the blocks printed since the last clear or input
    detailed_data,       \* show_textual_24h_price's local detailed_data
    data,                \* the presenter's local data (historical series)
    conv,                \* the locals of convert_bitcoin_to_usd
    call,                \* the last call of a service operation, with its result
    jsonErrIsRequestExc  \* the installed requests raises its own JSONDecodeError,
                         \* a RequestException (requests >= 2.27), from response.json()

vars == <<pc, option, price, screen, detailed_data, data, conv, call, jsonErrIsRequestExc>>

-----------------------------------------------------------------------------
(* Bounds of the model.                                                    *)

MaxPrice == 2

MaxCandles == 3

MaxDailyLen == 6

Prices == {2 * i : i \in 0..MaxPrice}

-----------------------------------------------------------------------------
(* Python values.                                                          *)

None == [t |-> "None", v |-> 0]

Flt(n) == [t |-> "float", v |-> n]

NaN == [t |-> "nan", v |-> 0]

\* bool(x) of a float or None: 0.0 and None are false, nan is true
Truthy(x) == x.t = "nan" \/ (x.t = "float" /\ x.v # 0)

\* JSON field values: a number (or numeric string), a non-numeric string, null
JNum(n) == [t |-> "num", v |-> n]

JStr == [t |-> "str", v |-> 0]

JNull == [t |-> "null", v |-> 0]

JNums == {JNum(n) : n \in Prices}

JVals == JNums \cup {JStr, JNull}

\* float(x) of a decoded JSON value
PyFloat(x) ==
    CASE x.t = "num" -> [exc |-> "none", val |-> x.v]
      [] x.t = "str" -> [exc |-> "ValueError", val |-> 0]
      [] x.t = "null" -> [exc |-> "TypeError", val |-> 0]

\* decoded JSON bodies: a dict, None (JSON null), a list
EmptyDict == [k \in {} |-> JNull]

Dict(d) == [j |-> "dict", d |-> d]

NoneBody == [j |-> "None", d |-> EmptyDict]

ListBody == [j |-> "list", d |-> EmptyDict]

EmptyListBody == [j |-> "emptylist", d |-> EmptyDict]

\* bool(x) of a decoded body
TruthyBody(b) == b.j = "list" \/ (b.j = "dict" /\ DOMAIN b.d # {})

\* the outcome of requests.get + raise_for_status + response.json()
NetErr == [http |-> "neterr", json |-> NoneBody]

BadJson == [http |-> "badjson", json |-> NoneBody]

Ok(body) == [http |-> "ok", json |-> body]

DictsOver(keys, vals) == UNION {[S -> vals] : S \in SUBSET keys}

\* what the exchange may answer to ticker/price
PriceResponses ==
    {NetErr, BadJson, Ok(NoneBody), Ok(ListBody)}
        \cup {Ok(Dict(d)) : d \in DictsOver({"price"}, JVals)}

\* what the exchange may answer to ticker/24hr, as _get_alternative_price reads it
AltTickerResponses ==
    {NetErr, BadJson, Ok(NoneBody), Ok(ListBody)}
        \cup {Ok(Dict(d)) : d \in DictsOver({"lastPrice", "bidPrice", "askPrice"}, JVals)}

\* a response nobody asked for
NoResponse == [http |-> "unused", json |-> NoneBody]

-----------------------------------------------------------------------------
(* get_current_price and its fallback.                                     *)

\* lines 19-28, the try body: the exception it raises, or the value it returns
PriceTryBody(p) ==
    CASE p.http = "neterr" -> [exc |-> "RequestException", ret |-> None]
      [] p.http = "badjson" ->
            [exc |-> IF jsonErrIsRequestExc THEN "RequestException" ELSE "JSONDecodeError",
             ret |-> None]
      [] OTHER ->
            LET body == p.json
            IN  CASE body.j = "None" -> [exc |-> "TypeError", ret |-> None]
                  [] body.j = "dict" /\ "price" \in DOMAIN body.d ->
                        LET x == PyFloat(body.d["price"])
                        IN  [exc |-> x.exc,
                             ret |-> IF x.exc = "none" THEN Flt(x.val) ELSE None]
                  [] OTHER -> [exc |-> "none", ret |-> None]

RaisesRequestException(p) == PriceTryBody(p).exc = "RequestException"

\* lines 42-57; the bare except turns every exception into None
_get_alternative_price(f) ==
    IF f.http # "ok" THEN None
    ELSE LET body == f.json
             d == body.d
         IN  IF body.j # "dict" THEN None
             ELSE IF "lastPrice" \in DOMAIN d
                  THEN LET x == PyFloat(d["lastPrice"])
                       IN  IF x.exc = "none" THEN Flt(x.val) ELSE None
                  ELSE IF "bidPrice" \in DOMAIN d /\ "askPrice" \in DOMAIN d
                       THEN LET b == PyFloat(d["bidPrice"])
                                a == PyFloat(d["askPrice"])
                            IN  IF b.exc = "none" /\ a.exc = "none"
                                THEN Flt((b.val + a.val) \div 2)
                                ELSE None
                       ELSE None

\* p answers the request to ticker/price; f answers the request to ticker/24hr,
\* when one is made.  The handlers: RequestException -> the fallback; KeyError,
\* ValueError, JSONDecodeError -> None; any other Exception -> None
get_current_price(p, f) ==
    LET body == PriceTryBody(p)
    IN  IF body.exc = "RequestException"
        THEN [ret |-> _get_alternative_price(f),
              reqs |-> <<"ticker/price", "ticker/24hr">>, raised |-> FALSE]
        ELSE [ret |-> IF body.exc = "none" THEN body.ret ELSE None,
              reqs |-> <<"ticker/price">>, raised |-> FALSE]

\* the answers one call of get_current_price consumes
PriceEnv ==
    UNION {{<<p, f>> : f \in IF RaisesRequestException(p)
                              THEN AltTickerResponses ELSE {NoResponse}}
           : p \in PriceResponses}

-----------------------------------------------------------------------------
(* get_historical_data.                                                    *)

\* times are counted in minutes: Python's integers are unbounded, the model's
\* are 32 bits wide, and days * 24 * 60 * 60 * 1000 ms does not fit for 1000 days
MinPerDay == 24 * 60

\* lines 67-78
Interval(days) ==
    IF days <= 1 THEN "15m" ELSE IF days <= 7 THEN "1h" ELSE IF days <= 30 THEN "4h" ELSE "1d"

Limit(days) ==
    IF days <= 1 THEN 96
    ELSE IF days <= 7 THEN 168
    ELSE IF days <= 30 THEN 180
    ELSE IF days < 1000 THEN days ELSE 1000

\* a candle of the response: whether len() applies to it, its length, its
\* element 0 (open time) and its element 4 (close)
Candle(len, ts, close) == [sized |-> TRUE, len |-> len, ts |-> ts, close |-> close]

GoodCandles == {Candle(12, JNum(0), c) : c \in JNums}

OddCandles ==
    { Candle(2, JNum(0), JNull),                  \* fewer than 6 fields
      Candle(12, JNum(0), JStr),                  \* close is not a number
      Candle(12, JNum(0), JNull),                 \* close is null
      Candle(12, JNull, JNum(2)),                 \* open time is null
      [sized |-> FALSE, len |-> 0, ts |-> JNull, close |-> JNull] }  \* a scalar

SeqsOver(S, n) == UNION {[1..k -> S] : k \in 0..n}

\* the candle lists of the model: well-formed candles only, or one odd candle
\* alone, before or after a well-formed one
CandleLists ==
    SeqsOver(GoodCandles, MaxCandles)
        \cup {<<o>> : o \in OddCandles}
        \cup {<<g, o>> : g \in GoodCandles, o \in OddCandles}
        \cup {<<o, g>> : g \in GoodCandles, o \in OddCandles}

KlineOk(cs) == [http |-> "ok", j |-> "list", candles |-> cs]

KlineResponsesOf(lists) ==
    { [http |-> "neterr", j |-> "None", candles |-> <<>>],
      [http |-> "badjson", j |-> "None", candles |-> <<>>],
      [http |-> "ok", j |-> "None", candles |-> <<>>] }
        \cup {KlineOk(cs) : cs \in lists}

KlineResponses == KlineResponsesOf(CandleLists)

NoSeries == [t |-> "None", items |-> <<>>]

Series(items) == [t |-> "list", items |-> items]

\* CandleStep without the length check of line 96
CandleStepNoLengthCheck(candle) ==
    IF ~candle.sized THEN [exc |-> "TypeError", keep |-> FALSE, point |-> <<>>]
    ELSE LET x == PyFloat(candle.close)
         IN  [exc |-> x.exc, keep |-> x.exc = "none",
              point |-> IF x.exc = "none"
                        THEN <<[ts |-> candle.ts, price |-> x.val]>> ELSE <<>>]

\* lines 95-100 on one candle: the exception, or whether a point is appended
CandleStep(candle) ==
    IF ~candle.sized THEN [exc |-> "TypeError", keep |-> FALSE, point |-> <<>>]
    ELSE IF candle.len >= 6
         THEN LET x == PyFloat(candle.close)
              IN  [exc |-> x.exc, keep |-> x.exc = "none",
                   point |-> IF x.exc = "none"
                             THEN <<[ts |-> candle.ts, price |-> x.val]>> ELSE <<>>]
         ELSE [exc |-> "none", keep |-> FALSE, point |-> <<>>]

\* lines 94-100, the loop: the first exception, or the list built
RECURSIVE HistoricalLoop(_, _)
HistoricalLoop(candles, historical) ==
    IF candles = <<>> THEN [exc |-> "none", historical |-> historical]
    ELSE LET s == CandleStep(Head(candles))
         IN  IF s.exc # "none" THEN [exc |-> s.exc, historical |-> historical]
             ELSE HistoricalLoop(Tail(candles), historical \o s.point)

\* lines 59-111; every exception of the try body is handled by returning None
get_historical_data(days, k) ==
    LET params == [interval |-> Interval(days), limit |-> Limit(days),
                   span |-> days * MinPerDay]
        ret == IF k.http # "ok" \/ k.j # "list" THEN NoSeries
               ELSE LET l == HistoricalLoop(k.candles, <<>>)
                    IN  IF l.exc = "none" /\ l.historical # <<>>
                        THEN Series(l.historical) ELSE NoSeries
    IN  [ret |-> ret, reqs |-> <<"klines">>, params |-> params, raised |-> FALSE]

-----------------------------------------------------------------------------
(* get_detailed_price_info.                                                *)

DetailKeys == {"lastPrice", "openPrice", "highPrice", "lowPrice", "volume"}

Ticker(last, open, high, low) ==
    [k \in DetailKeys |->
        CASE k = "lastPrice" -> JNum(last)
          [] k = "openPrice" -> JNum(open)
          [] k = "highPrice" -> JNum(high)
          [] k = "lowPrice" -> JNum(low)
          [] OTHER -> JNum(2)]

Max2(a, b) == IF a >= b THEN a ELSE b

Min2(a, b) == IF a <= b THEN a ELSE b

\* tickers as the exchange computes them: low <= open, last <= high
ValidTickers ==
    {Ticker(q[1], q[2], q[3], q[4]) :
        q \in {r \in Prices \X Prices \X Prices \X Prices :
                  r[3] >= Max2(r[1], r[2]) /\ r[4] <= Min2(r[1], r[2])}}

\* the tickers the odd ones are made from: the last price is the highest, the
\* open price is 0 or not
BaseTickers == {Ticker(2 * MaxPrice, o, 2 * MaxPrice, o) : o \in {0, 2}}

Without(d, key) == [k \in DOMAIN d \ {key} |-> d[k]]

\* tickers with one field missing, not a number, or null
OddTickers ==
    {Without(d, key) : d \in BaseTickers, key \in DetailKeys}
        \cup {[d EXCEPT ![key] = x] : d \in BaseTickers, key \in DetailKeys,
                                      x \in {JStr, JNull}}

\* what the exchange may answer to ticker/24hr, as the 24h screen reads it
DetailResponses ==
    {NetErr, BadJson, Ok(NoneBody), Ok(ListBody), Ok(EmptyListBody), Ok(Dict(EmptyDict))}
        \cup {Ok(Dict(d)) : d \in ValidTickers \cup OddTickers}

\* get_detailed_price_info without the except clause of lines 124-125
get_detailed_price_info_NoExcept(t) ==
    [ret |-> IF t.http = "ok" THEN t.json ELSE NoneBody,
     reqs |-> <<"ticker/24hr">>, raised |-> t.http # "ok"]

\* lines 113-125; the bare except turns every exception into None
get_detailed_price_info(t) ==
    [ret |-> IF t.http = "ok" THEN t.json ELSE NoneBody,
     reqs |-> <<"ticker/24hr">>, raised |-> FALSE]

-----------------------------------------------------------------------------
(* What a service call can return to the presenter.                        *)

PriceResults == {get_current_price(e[1], e[2]).ret : e \in PriceEnv}

HistResultsOf(days, responses) == {get_historical_data(days, k).ret : k \in responses}

HistResults1 == HistResultsOf(1, KlineResponses)

HistResults5 == HistResultsOf(5, KlineResponses)

DetailResults == {get_detailed_price_info(t).ret : t \in DetailResponses}

-----------------------------------------------------------------------------
(* Arithmetic and dates of the presenters.                                 *)

Frac(n, d) == [n |-> n, d |-> d]

\* a / b
PyTrueDiv(a, b) ==
    IF b = 0 THEN [exc |-> "ZeroDivisionError", q |-> Frac(0, 1)]
    ELSE [exc |-> "none", q |-> Frac(a, b)]

\* (variation / base) * 100 without the guard
VariationPercentageUnguarded(variation, base) ==
    LET q == PyTrueDiv(variation, base)
    IN  [exc |-> q.exc, pct |-> Frac(q.q.n * 100, q.q.d)]

\* lines 144, 212, 244: (variation / base) * 100 if base else 0
VariationPercentage(variation, base) ==
    IF base # 0
    THEN LET q == PyTrueDiv(variation, base)
         IN  [exc |-> q.exc, pct |-> Frac(q.q.n * 100, q.q.d)]
    ELSE [exc |-> "none", pct |-> Frac(0, 1)]

PricesOf(items) == [i \in 1..Len(items) |-> items[i].price]

Range(s) == {s[i] : i \in 1..Len(s)}

SeqMax(s) == CHOOSE x \in Range(s) : \A y \in Range(s) : x >= y

SeqMin(s) == CHOOSE x \in Range(s) : \A y \in Range(s) : x <= y

RECURSIVE SeqSum(_)
SeqSum(s) == IF s = <<>> THEN 0 ELSE Head(s) + SeqSum(Tail(s))

\* prices[0] where max(prices) is meant
PriceMaxFirst(prices) == IF prices # <<>> THEN prices[1] ELSE 0

\* lines 208, 240: max(prices) if prices else 0
PriceMax(prices) == IF prices # <<>> THEN SeqMax(prices) ELSE 0

\* lines 207, 239: min(prices) if prices else 0
PriceMin(prices) == IF prices # <<>> THEN SeqMin(prices) ELSE 0

\* datetime.fromtimestamp(ts / 1000) of an open time (UTC taken as the zone)
FromTimestamp(ts) ==
    IF ts.t = "num" THEN [exc |-> "none", at |-> ts.v]
    ELSE [exc |-> "TypeError", at |-> 0]

MonthDays == <<31, 28, 31, 30, 31, 30, 31, 31, 30, 31, 30, 31>>

RECURSIVE DayMonth(_, _)
DayMonth(dayOfYear, month) ==
    IF dayOfYear < MonthDays[month] THEN <<dayOfYear + 1, month>>
    ELSE DayMonth(dayOfYear - MonthDays[month], month + 1)

\* strftime('%d/%m'): the day and the month, without the year (1970 and 1971,
\* which have 365 days)
DayKey(at) == DayMonth((at \div MinPerDay) % 365, 1)

\* strftime('%H:%M')
HourMinute(at) == <<(at % MinPerDay) \div 60, at % 60>>

\* range(0, n, step) as indexes from 1
Steps(n, step) == [j \in 1..((n + step - 1) \div step) |-> 1 + (j - 1) * step]

-----------------------------------------------------------------------------
(* show_textual_24h_price and _show_basic_24h_price.                       *)

\* detailed_data.get(key, 0)
DictGet(d, key) == IF key \in DOMAIN d THEN d[key] ELSE JNum(0)

\* the first exception of a sequence of float() results
RECURSIVE FirstExc(_)
FirstExc(xs) ==
    IF xs = <<>> THEN "none"
    ELSE IF Head(xs).exc # "none" THEN Head(xs).exc ELSE FirstExc(Tail(xs))

Traceback(exc) == [kind |-> "traceback", exc |-> exc]

StatsBlock(kind, current, base, high, low, pct) ==
    [kind |-> kind, current |-> current, base |-> base, high |-> high, low |-> low,
     variation |-> current - base, pct |-> pct]

Trend(variation) ==
    IF variation > 0 THEN "BULLISH" ELSE IF variation < 0 THEN "BEARISH" ELSE "STABLE"

\* lines 136-157, from the truth test of detailed_data to the trend line:
\* next is "chart" (go on to line 160), "basic" (the fallback of lines 187 and
\* 190) or "raise" (an exception no handler of the function catches)
TickerPart(detailed) ==
    IF ~TruthyBody(detailed)
    THEN [next |-> "basic", exc |-> "none", blocks |-> <<[kind |-> "no_detail"]>>]
    ELSE IF detailed.j # "dict"
    THEN [next |-> "raise", exc |-> "AttributeError", blocks |-> <<>>]
    ELSE LET d == detailed.d
             cur == PyFloat(DictGet(d, "lastPrice"))
             open == PyFloat(DictGet(d, "openPrice"))
             high == PyFloat(DictGet(d, "highPrice"))
             low == PyFloat(DictGet(d, "lowPrice"))
             vol == PyFloat(DictGet(d, "volume"))
             e1 == FirstExc(<<cur, open, high, low>>)
             vp == VariationPercentage(cur.val - open.val, open.val)
             stats == StatsBlock("ticker24h", cur.val, open.val, high.val, low.val, vp.pct)
             Caught(exc) == exc \in {"KeyError", "ValueError"}
             Leave(exc, blocks) ==
                 IF Caught(exc)
                 THEN [next |-> "basic", exc |-> "none",
                       blocks |-> blocks \o <<[kind |-> "detail_error"]>>]
                 ELSE [next |-> "raise", exc |-> exc, blocks |-> blocks]
         IN  IF e1 # "none" THEN Leave(e1, <<>>)
             ELSE IF vp.exc # "none" THEN Leave(vp.exc, <<>>)
             ELSE IF vol.exc # "none" THEN Leave(vol.exc, <<stats>>)
             ELSE [next |-> "chart", exc |-> "none",
                   blocks |-> <<stats, [kind |-> "volume_trend", volume |-> vol.val,
                                        trend |-> Trend(cur.val - open.val)]>>]

\* lines 176-180, the rows printed until a row raises
RECURSIVE ChartRows(_, _, _, _)
ChartRows(items, idx, lo, range) ==
    IF idx = <<>> THEN [exc |-> "none", rows |-> <<>>]
    ELSE LET item == items[Head(idx)]
             height == ((item.price - lo) * 20) \div range
             at == FromTimestamp(item.ts)
         IN  IF at.exc # "none" THEN [exc |-> at.exc, rows |-> <<>>]
             ELSE LET rest == ChartRows(items, Tail(idx), lo, range)
                  IN  [exc |-> rest.exc,
                       rows |-> <<[time |-> HourMinute(at.at), bar |-> height + 1,
                                   price |-> item.price]>> \o rest.rows]

\* lines 160-182, with hist what get_historical_data(1) returned
ChartPart(hist) ==
    IF hist.t # "list" THEN [exc |-> "none", blocks |-> <<>>]
    ELSE LET prices == PricesOf(hist.items)
             n == Len(prices)
         IN  IF n > 1
             THEN LET lo == SeqMin(prices)
                      range == SeqMax(prices) - lo
                  IN  IF range > 0
                      THEN LET step == Max2(1, n \div 12)
                               c == ChartRows(hist.items, Steps(n, step), lo, range)
                           IN  [exc |-> c.exc,
                                blocks |-> <<[kind |-> "chart", rows |-> c.rows]>>]
                      ELSE [exc |-> "none", blocks |-> <<[kind |-> "chart", rows |-> <<>>]>>]
             ELSE [exc |-> "none", blocks |-> <<[kind |-> "insufficient"]>>]

\* lines 205-217 and 238-249: the statistics of a series
SeriesStats(kind, items) ==
    LET prices == PricesOf(items)
        current == IF prices # <<>> THEN prices[Len(prices)] ELSE 0
        initial == IF prices # <<>> THEN prices[1] ELSE 0
        vp == VariationPercentage(current - initial, initial)
    IN  [exc |-> vp.exc,
         block |-> StatsBlock(kind, current, initial, PriceMax(prices), PriceMin(prices),
                              vp.pct)]

\* what the presenters print when the series is missing, with cur what
\* get_current_price returned
PriceOnly(cur) ==
    <<[kind |-> "no_history"]>>
        \o IF Truthy(cur) THEN <<[kind |-> "price_only", current |-> cur.v]>> ELSE <<>>

\* lines 194-217, with hist what get_historical_data(1) returned and cur what
\* get_current_price returned when it is called
_show_basic_24h_price(hist, cur) ==
    IF hist.t # "list" THEN [exc |-> "none", blocks |-> PriceOnly(cur)]
    ELSE LET st == SeriesStats("basic24h", hist.items)
         IN  IF st.exc # "none" THEN [exc |-> st.exc, blocks |-> <<>>]
             ELSE [exc |-> "none", blocks |-> <<st.block>>]

-----------------------------------------------------------------------------
(* show_textual_5days_price.                                               *)

\* lines 260-262: prices_by_day, a dict in insertion order, as the sequence of
\* its (key, list) entries
AddToDay(buckets, day, p) ==
    IF \E i \in 1..Len(buckets) : buckets[i].day = day
    THEN [i \in 1..Len(buckets) |->
             IF buckets[i].day = day
             THEN [buckets[i] EXCEPT !.prices = Append(@, p)]
             ELSE buckets[i]]
    ELSE Append(buckets, [day |-> day, prices |-> <<p>>])

\* lines 257-262
RECURSIVE GroupByDay(_, _)
GroupByDay(items, buckets) ==
    IF items = <<>> THEN buckets
    ELSE GroupByDay(Tail(items),
                    AddToDay(buckets, DayKey(FromTimestamp(Head(items).ts).at),
                             Head(items).price))

\* s[:n] where s[-n:] is meant
FirstN(s, n) == SubSeq(s, 1, Min2(n, Len(s)))

\* s[-n:]
LastN(s, n) == SubSeq(s, Max2(1, Len(s) - n + 1), Len(s))

\* lines 264-267
DailyRows(buckets) ==
    LET shown == SelectSeq(LastN(buckets, 5), LAMBDA b : b.prices # <<>>)
    IN  [i \in 1..Len(shown) |->
            [day |-> shown[i].day,
             average |-> Frac(SeqSum(shown[i].prices), Len(shown[i].prices))]]

\* lines 270-274
PointRows(items) ==
    LET idx == Steps(Len(items), Max2(1, Len(items) \div 5))
    IN  [j \in 1..Len(idx) |->
            LET at == FromTimestamp(items[idx[j]].ts).at
            IN  [day |-> DayKey(at), time |-> HourMinute(at), price |-> items[idx[j]].price]]

\* lines 219-276, with hist what get_historical_data(5) returned and cur what
\* get_current_price returned when it is called
show_textual_5days_price(hist, cur) ==
    IF hist.t # "list" THEN [exc |-> "none", blocks |-> PriceOnly(cur)]
    ELSE LET items == hist.items
             dates == FirstExc([i \in 1..Len(items) |-> FromTimestamp(items[i].ts)])
             st == SeriesStats("5d", items)
         IN  IF dates # "none" THEN [exc |-> dates, blocks |-> <<>>]
             ELSE IF st.exc # "none" THEN [exc |-> st.exc, blocks |-> <<>>]
             ELSE IF Len(items) >= 5
                  THEN LET prices_by_day == GroupByDay(items, <<>>)
                       IN  [exc |-> "none",
                            blocks |-> <<st.block,
                                         [kind |-> "daily", prices_by_day |-> prices_by_day,
                                          rows |-> DailyRows(prices_by_day)]>>]
                  ELSE [exc |-> "none",
                        blocks |-> <<st.block, [kind |-> "points", rows |-> PointRows(items)]>>]

-----------------------------------------------------------------------------
(* convert_bitcoin_to_usd.                                                 *)

\* what the user may type at a prompt that float() reads
Texts == {"abc", "", "nan", "-2", "0", "2", "3"}

\* float(text)
FloatOfText(text) ==
    CASE text = "nan" -> [exc |-> "none", val |-> NaN]
      [] text = "-2" -> [exc |-> "none", val |-> Flt(-2)]
      [] text = "0" -> [exc |-> "none", val |-> Flt(0)]
      [] text = "2" -> [exc |-> "none", val |-> Flt(2)]
      [] text = "3" -> [exc |-> "none", val |-> Flt(3)]
      [] OTHER -> [exc |-> "ValueError", val |-> None]

\* x <= 0 of a float: false of nan
LeZero(x) == x.t = "float" /\ x.v <= 0

\* a * b of floats
FMul(a, b) == IF a.t = "nan" \/ b.t = "nan" THEN NaN ELSE Flt(a.v * b.v)

\* str.lower() of the answers the model types
Lower(text) == IF text = "Y" THEN "y" ELSE IF text = "N" THEN "n" ELSE text

ReferencePrice == 50000

\* the manual entry always falling back to the reference price
ManualPriceIgnored(text) == [price_btc |-> Flt(ReferencePrice), source |-> "invalid_manual"]

\* lines 294-298
ManualPrice(text) ==
    LET x == FloatOfText(text)
    IN  IF x.exc = "ValueError"
        THEN [price_btc |-> Flt(ReferencePrice), source |-> "invalid_manual"]
        ELSE [price_btc |-> x.val, source |-> "manual"]

\* lines 304-314, one pass of the loop: the amount is rejected, or the loop breaks
AmountStep(text) ==
    LET x == FloatOfText(text)
    IN  IF x.exc = "ValueError"
        THEN [accepted |-> FALSE, amount_btc |-> None, error |-> "Error: Enter a valid number"]
        ELSE IF LeZero(x.val)
             THEN [accepted |-> FALSE, amount_btc |-> x.val,
                   error |-> "Error: Amount must be greater than 0"]
             ELSE [accepted |-> TRUE, amount_btc |-> x.val, error |-> ""]

-----------------------------------------------------------------------------
(* The state after BitcoinConverterBinance() and before the first prompt.  *)

NoCall == [op |-> "none"]

NoConv == [api |-> None, price_btc |-> None, source |-> "", typed_price |-> "",
           typed_amount |-> "", amount_btc |-> None, result |-> None, error |-> ""]

Init ==
    /\ pc = "menu"
    /\ option = ""
    /\ price = None
    /\ screen = <<>>
    /\ detailed_data = NoneBody
    /\ data = NoSeries
    /\ conv = NoConv
    /\ call = NoCall
    /\ jsonErrIsRequestExc \in BOOLEAN

-----------------------------------------------------------------------------
(* show_simple_menu: the menu loop and what each option runs.              *)

\* a presenter returns (pause at "Press Enter to continue...") or raises
Finish(blocks, exc) ==
    /\ pc' = IF exc = "none" THEN "pause" ELSE "crashed"
    /\ screen' = IF exc = "none" THEN blocks ELSE blocks \o <<Traceback(exc)>>

\* the loop goes round: option and price are rebound (lines 343, 359) before
\* anything reads them, so the model drops them here, and line 334 clears the screen
LoopAgain ==
    /\ pc' = "menu"
    /\ option' = ""
    /\ price' = None
    /\ screen' = <<>>

\* lines 343-359: query the price, print the menu
MenuTop ==
    /\ pc = "menu"
    /\ \E c \in PriceResults :
          /\ price' = c
          /\ screen' = <<[kind |-> "menu", shown |-> Truthy(c), current |-> c.v]>>
    /\ pc' = "option"
    /\ UNCHANGED <<option, detailed_data, data, conv, call, jsonErrIsRequestExc>>

\* lines 361-363 and 127-192
Option1 ==
    /\ pc = "option"
    /\ option' = "1"
    /\ \E d \in DetailResults :
          LET tp == TickerPart(d)
          IN  /\ detailed_data' = d
              /\ IF tp.next = "raise"
                 THEN Finish(tp.blocks, tp.exc) /\ data' = NoSeries
                 ELSE \E h \in HistResults1 :
                         /\ data' = h
                         /\ IF tp.next = "chart"
                            THEN LET cp == ChartPart(h)
                                 IN  Finish(tp.blocks \o cp.blocks, cp.exc)
                            ELSE \E c \in IF h.t = "list" THEN {None} ELSE PriceResults :
                                    LET b == _show_basic_24h_price(h, c)
                                    IN  Finish(tp.blocks \o b.blocks, b.exc)
    /\ UNCHANGED <<price, conv, call, jsonErrIsRequestExc>>

\* lines 365-367 and 219-276, with results what get_historical_data(5) can return
Show5Days(results) ==
    /\ pc = "option"
    /\ option' = "2"
    /\ \E h \in results :
          /\ data' = h
          /\ \E c \in IF h.t = "list" THEN {None} ELSE PriceResults :
                LET r == show_textual_5days_price(h, c)
                IN  Finish(r.blocks, r.exc)
    /\ UNCHANGED <<price, detailed_data, conv, call, jsonErrIsRequestExc>>

Option2 == Show5Days(HistResults5)

\* lines 363 and 367: Enter at "Press Enter to continue..."
PressEnter ==
    /\ pc = "pause"
    /\ LoopAgain
    /\ detailed_data' = NoneBody
    /\ data' = NoSeries
    /\ UNCHANGED <<conv, call, jsonErrIsRequestExc>>

\* lines 369-370 and 278-301, up to the first prompt of the converter
Option3 ==
    /\ pc = "option"
    /\ option' = "3"
    /\ \E c \in PriceResults :
          /\ conv' = [NoConv EXCEPT !.api = c, !.price_btc = c,
                                    !.source = IF Truthy(c) THEN "api" ELSE ""]
          /\ pc' = IF Truthy(c) THEN "amount" ELSE "ask_default"
          /\ screen' = <<[kind |-> "converter", shown |-> Truthy(c), current |-> c.v]>>
    /\ UNCHANGED <<price, detailed_data, data, call, jsonErrIsRequestExc>>

\* lines 289-293: the answer to "Use reference price of $50,000? (y/n): "
AskDefault ==
    /\ pc = "ask_default"
    /\ \E answer \in {"y", "Y", "n", ""} :
          IF Lower(answer) = "y"
          THEN /\ conv' = [conv EXCEPT !.price_btc = Flt(ReferencePrice),
                                       !.source = "reference"]
               /\ pc' = "amount"
          ELSE /\ conv' = conv
               /\ pc' = "manual"
    /\ UNCHANGED <<option, price, screen, detailed_data, data, call, jsonErrIsRequestExc>>

\* lines 294-298: the text typed at "Enter price manually: $"
EnterManualPrice ==
    /\ pc = "manual"
    /\ \E text \in Texts :
          LET m == ManualPrice(text)
          IN  conv' = [conv EXCEPT !.price_btc = m.price_btc, !.source = m.source,
                                   !.typed_price = text]
    /\ pc' = "amount"
    /\ UNCHANGED <<option, price, screen, detailed_data, data, call, jsonErrIsRequestExc>>

\* lines 303-324: one text typed at "Enter amount of Bitcoin: "; the loop goes
\* round, or breaks and the result is printed
EnterAmount ==
    /\ pc = "amount"
    /\ \E text \in Texts :
          LET a == AmountStep(text)
              amount == IF a.amount_btc = None THEN conv.amount_btc ELSE a.amount_btc
              result == FMul(amount, conv.price_btc)
          IN  IF a.accepted
              THEN /\ conv' = [conv EXCEPT !.typed_amount = text, !.amount_btc = amount,
                                           !.error = "", !.result = result]
                   /\ screen' = <<[kind |-> "result", amount |-> amount,
                                   current |-> conv.price_btc, total |-> result]>>
                   /\ pc' = "result"
              ELSE /\ conv' = [conv EXCEPT !.typed_amount = text, !.amount_btc = amount,
                                           !.error = a.error]
                   /\ screen' = <<[kind |-> "amount_error", error |-> a.error]>>
                   /\ pc' = "amount"
    /\ UNCHANGED <<option, price, detailed_data, data, call, jsonErrIsRequestExc>>

\* line 326: Enter at "Press Enter to continue...", and the converter returns
ConvertContinue ==
    /\ pc = "result"
    /\ LoopAgain
    /\ conv' = NoConv
    /\ UNCHANGED <<detailed_data, data, call, jsonErrIsRequestExc>>

\* lines 372-380
Option4 ==
    /\ pc = "option"
    /\ option' = "4"
    /\ \E c \in PriceResults :
          screen' = <<[kind |-> "refresh", shown |-> Truthy(c), current |-> c.v]>>
    /\ pc' = "sleep"
    /\ UNCHANGED <<price, detailed_data, data, conv, call, jsonErrIsRequestExc>>

\* lines 382-386
Option5 ==
    /\ pc = "option"
    /\ option' = "5"
    /\ screen' = <<[kind |-> "goodbye"]>>
    /\ pc' = "exited"
    /\ UNCHANGED <<price, detailed_data, data, conv, call, jsonErrIsRequestExc>>

\* lines 388-390: any other text
InvalidOption ==
    /\ pc = "option"
    /\ \E text \in {"", "0", "6", "x"} : option' = text
    /\ screen' = <<[kind |-> "invalid_option"]>>
    /\ pc' = "sleep"
    /\ UNCHANGED <<price, detailed_data, data, conv, call, jsonErrIsRequestExc>>

\* lines 380 and 390: time.sleep returns
Wake ==
    /\ pc = "sleep"
    /\ LoopAgain
    /\ UNCHANGED <<detailed_data, data, conv, call, jsonErrIsRequestExc>>

Next ==
    \/ MenuTop
    \/ Option1
    \/ Option2
    \/ PressEnter
    \/ Option3
    \/ AskDefault
    \/ EnterManualPrice
    \/ EnterAmount
    \/ ConvertContinue
    \/ Option4
    \/ Option5
    \/ InvalidOption
    \/ Wake

Spec == Init /\ [][Next]_vars

-----------------------------------------------------------------------------
(* The service operations called on their own, one call per step.          *)

DaysSet == {1, 2, 5, 7, 8, 30, 31, 999, 1000, 1001}

ServiceUnchanged ==
    UNCHANGED <<pc, option, price, screen, detailed_data, data, conv, jsonErrIsRequestExc>>

CallGetCurrentPrice ==
    /\ call = NoCall
    /\ \E e \in PriceEnv :
          LET r == get_current_price(e[1], e[2])
          IN  call' = [op |-> "get_current_price", primary |-> e[1], fallback |-> e[2],
                       reqs |-> r.reqs, ret |-> r.ret, raised |-> r.raised]
    /\ ServiceUnchanged

CallGetHistoricalData ==
    /\ call = NoCall
    /\ \E days \in DaysSet, k \in KlineResponses :
          LET r == get_historical_data(days, k)
          IN  call' = [op |-> "get_historical_data", days |-> days, resp |-> k,
                       params |-> r.params, reqs |-> r.reqs, ret |-> r.ret,
                       raised |-> r.raised]
    /\ ServiceUnchanged

CallGetDetailedPriceInfo ==
    /\ call = NoCall
    /\ \E t \in DetailResponses :
          LET r == get_detailed_price_info(t)
          IN  call' = [op |-> "get_detailed_price_info", resp |-> t,
                       reqs |-> r.reqs, ret |-> r.ret, raised |-> r.raised]
    /\ ServiceUnchanged

\* the caller is done with the result; the operations keep no state
DropResult ==
    /\ call # NoCall
    /\ call' = NoCall
    /\ ServiceUnchanged

NextService ==
    \/ CallGetCurrentPrice
    \/ CallGetHistoricalData
    \/ CallGetDetailedPriceInfo
    \/ DropResult

SpecService == Init /\ [][NextService]_vars

-----------------------------------------------------------------------------
(* Claims about the service operations, checked under SpecService.         *)

\* what the claim expects of the fallback: lastPrice if present, otherwise the
\* midpoint of bidPrice and askPrice, otherwise the failure value
AltExpected(f) ==
    IF f.http = "ok" /\ f.json.j = "dict"
    THEN LET d == f.json.d
         IN  IF "lastPrice" \in DOMAIN d
             THEN IF d["lastPrice"].t = "num" THEN Flt(d["lastPrice"].v) ELSE None
             ELSE IF /\ {"bidPrice", "askPrice"} \subseteq DOMAIN d
                     /\ d["bidPrice"].t = "num" /\ d["askPrice"].t = "num"
                  THEN Flt((d["bidPrice"].v + d["askPrice"].v) \div 2)
                  ELSE None
    ELSE None

\* C1: a call of get_current_price requests ticker/price once, requests
\* ticker/24hr at most once and only after a network failure of the first
\* request (never after a response that fails to parse), makes no other request,
\* and when the fallback runs returns lastPrice if present, otherwise the
\* midpoint of bidPrice and askPrice, otherwise None.
C1_FallbackOnlyAfterNetworkFailure ==
    call.op = "get_current_price" =>
        /\ Len(call.reqs) \in {1, 2}
        /\ call.reqs[1] = "ticker/price"
        /\ Len(call.reqs) = 2 =>
              /\ call.reqs[2] = "ticker/24hr"
              /\ call.primary.http = "neterr"
              /\ call.ret = AltExpected(call.fallback)
        /\ call.primary.http \in {"badjson", "ok"} => Len(call.reqs) = 1

\* a ticker response that is a failure in the spec's sense: the request failed,
\* the body is not a JSON object, or a field is missing or not a number
TickerFailed(t) ==
    \/ t.http # "ok"
    \/ t.json.j # "dict"
    \/ \E k \in DetailKeys : k \notin DOMAIN t.json.d \/ t.json.d[k].t # "num"

ReturnsValueOrNone ==
    /\ ~call.raised
    /\ call.op = "get_current_price" => call.ret.t \in {"None", "float"}
    /\ call.op = "get_historical_data" =>
          \/ call.ret = NoSeries
          \/ call.ret.t = "list" /\ call.ret.items # <<>>
    /\ call.op = "get_detailed_price_info" => call.ret.j \in {"None", "dict", "list", "emptylist"}

\* C2 as stated: every service operation returns a value or None and raises
\* nothing, and a ticker query that failed (network or parse failure) returns
\* None, never a partial snapshot.
C2_NoPartialSnapshot ==
    call.op # "none" =>
        /\ ReturnsValueOrNone
        /\ (call.op = "get_detailed_price_info" /\ TickerFailed(call.resp)) =>
              call.ret = NoneBody

\* C2 as amended: every service operation returns a value or None and raises
\* nothing; get_detailed_price_info returns None when the request fails or the
\* body is not JSON, and otherwise the decoded body as it is, whatever fields
\* it holds.
C2_ServiceNeverRaises ==
    call.op # "none" =>
        /\ ReturnsValueOrNone
        /\ call.op = "get_detailed_price_info" =>
              /\ call.resp.http # "ok" => call.ret = NoneBody
              /\ call.resp.http = "ok" => call.ret = call.resp.json

C2_Witness ==
    /\ call.op = "get_detailed_price_info"
    /\ call.resp.http = "neterr"
    /\ call.ret = NoneBody
    /\ ~call.raised

WellFormedCandle(c) == c.sized /\ c.len >= 6 /\ c.close.t = "num" /\ c.ts.t = "num"

PointOf(c) == [ts |-> c.ts, price |-> c.close.v]

\* C6 as stated: get_historical_data returns None when the response is
\* malformed or empty, and otherwise one (openTime, closePrice) pair per candle
\* of the response, in response order.
C6_OnePairPerCandle ==
    call.op = "get_historical_data" =>
        LET k == call.resp
            malformed == \/ k.http # "ok" \/ k.j # "list"
                         \/ \E i \in 1..Len(k.candles) : ~WellFormedCandle(k.candles[i])
        IN  IF malformed \/ k.candles = <<>>
            THEN call.ret = NoSeries
            ELSE call.ret = Series([i \in 1..Len(k.candles) |-> PointOf(k.candles[i])])

HasSixFields(c) == c.sized /\ c.len >= 6

\* C6 as amended: get_historical_data returns None when the request fails, the
\* body is not a JSON list, a candle is not a sequence or has at least 6 fields
\* and a close that is not a number, or no candle has at least 6 fields;
\* otherwise it returns, in response order, one (openTime, closePrice) pair per
\* candle that has at least 6 fields, shorter candles being skipped.
C6_OnePairPerLongCandle ==
    call.op = "get_historical_data" =>
        LET k == call.resp
            failing == \/ k.http # "ok" \/ k.j # "list"
                       \/ \E i \in 1..Len(k.candles) :
                             \/ ~k.candles[i].sized
                             \/ k.candles[i].len >= 6 /\ k.candles[i].close.t # "num"
            kept == SelectSeq(k.candles, HasSixFields)
        IN  IF failing \/ kept = <<>>
            THEN call.ret = NoSeries
            ELSE call.ret = Series([i \in 1..Len(kept) |-> PointOf(kept[i])])

C6_Witness ==
    /\ call.op = "get_historical_data"
    /\ call.ret.t = "list"
    /\ Len(call.ret.items) = 1
    /\ Len(call.resp.candles) = 2

-----------------------------------------------------------------------------
(* Claims about the presenters and the menu loop, checked under Spec.      *)

Blocks(kinds) == {i \in 1..Len(screen) : screen[i].kind \in kinds}

\* C3: every menu action completes and returns control to the menu, whatever
\* the service returned (nothing, or a response with missing or wrongly typed
\* fields): no exception escapes a presenter.
C3_NoRawFailure == ~(pc = "crashed" /\ detailed_data.j \in {"None", "dict"})

IsPositiveNumber(x) == x.t = "float" /\ x.v > 0

\* C4: the converter computes and displays a result only for an amount that is
\* a number strictly greater than 0; an entry it rejects is non-numeric or not
\* greater than 0, shows the prompt again and leaves the chosen price as it was.
C4_OnlyPositiveAmounts ==
    /\ pc = "result" =>
          /\ IsPositiveNumber(conv.amount_btc)
          /\ conv.result = FMul(conv.amount_btc, conv.price_btc)
    /\ (pc = "amount" /\ conv.error # "") =>
          ~IsPositiveNumber(FloatOfText(conv.typed_amount).val)
    /\ pc \in {"amount", "result"} =>
          \/ conv.source = "api" /\ conv.price_btc = conv.api
          \/ conv.source \in {"reference", "invalid_manual"}
                /\ conv.price_btc = Flt(ReferencePrice)
          \/ conv.source = "manual" /\ conv.price_btc = FloatOfText(conv.typed_price).val

IsDecimalText(text) == text \in {"-2", "0", "2", "3"}

\* C5: when get_current_price returned no usable price the converter goes to
\* the reference/manual prompts, and a decimal typed at "Enter price manually"
\* is the price that multiplies the amount in the displayed result.
C5_ManualPriceUsed ==
    pc \in {"ask_default", "manual", "amount", "result"} =>
        /\ ~Truthy(conv.api) =>
              \/ pc \in {"ask_default", "manual"}
              \/ conv.source \in {"reference", "manual", "invalid_manual"}
        /\ pc \in {"ask_default", "manual"} => ~Truthy(conv.api)
        /\ (conv.source \in {"manual", "invalid_manual"} /\ IsDecimalText(conv.typed_price)) =>
              /\ conv.source = "manual"
              /\ conv.price_btc = FloatOfText(conv.typed_price).val
        /\ (pc = "result" /\ conv.source = "manual") =>
              /\ conv.result = FMul(conv.amount_btc, FloatOfText(conv.typed_price).val)
              /\ screen[1].total = conv.result

C5_Witness ==
    /\ pc = "result"
    /\ conv.api = None
    /\ conv.source = "manual"
    /\ conv.typed_price = "3"
    /\ conv.typed_amount = "2"
    /\ conv.result = Flt(6)

IsMaxOf(x, prices) == x \in Range(prices) /\ \A y \in Range(prices) : y <= x

IsMinOf(x, prices) == x \in Range(prices) /\ \A y \in Range(prices) : y >= x

\* C7 as stated: on the 24h analysis, its basic fallback and the 5-day
\* analysis, the high and the low rendered equal the maximum and the minimum of
\* the prices of the series the screen was built from.
C7_HighLowOfSeries ==
    \A i \in Blocks({"ticker24h", "basic24h", "5d"}) :
        data.t = "list" =>
            /\ IsMaxOf(screen[i].high, PricesOf(data.items))
            /\ IsMinOf(screen[i].low, PricesOf(data.items))

\* C7 as amended: on the basic 24h fallback and the 5-day analysis the high and
\* the low rendered equal the maximum and the minimum of the prices of the
\* series; the 24h analysis renders the ticker's highPrice and lowPrice (0 for
\* a missing field), whatever the series holds.
C7_HighLowOfSeriesOrTicker ==
    /\ \A i \in Blocks({"basic24h", "5d"}) :
          /\ data.t = "list"
          /\ IsMaxOf(screen[i].high, PricesOf(data.items))
          /\ IsMinOf(screen[i].low, PricesOf(data.items))
    /\ \A i \in Blocks({"ticker24h"}) :
          /\ screen[i].high = DictGet(detailed_data.d, "highPrice").v
          /\ screen[i].low = DictGet(detailed_data.d, "lowPrice").v

C7_Witness ==
    /\ pc = "pause"
    /\ \E i \in Blocks({"basic24h"}) : screen[i].high = 4 /\ screen[i].low = 0
    /\ Len(data.items) = 3
    /\ data.items[2].price = 4
    /\ data.items[3].price = 0

\* C8: variation = current - baseline and variation percentage =
\* variation / baseline * 100, or 0 when the baseline is 0, with lastPrice and
\* openPrice as current and baseline on the 24h analysis and the last and the
\* first price of the series on the basic fallback and the 5-day analysis; no
\* division by zero occurs.
C8_GuardedVariation ==
    /\ \A i \in Blocks({"ticker24h", "basic24h", "5d"}) :
          /\ screen[i].variation = screen[i].current - screen[i].base
          /\ screen[i].base = 0 => screen[i].pct = Frac(0, 1)
          /\ screen[i].base # 0 =>
                /\ screen[i].pct.d # 0
                /\ screen[i].pct.n * screen[i].base
                      = screen[i].variation * 100 * screen[i].pct.d
    /\ \A i \in Blocks({"ticker24h"}) :
          /\ screen[i].current = DictGet(detailed_data.d, "lastPrice").v
          /\ screen[i].base = DictGet(detailed_data.d, "openPrice").v
    /\ \A i \in Blocks({"basic24h", "5d"}) :
          /\ screen[i].current = data.items[Len(data.items)].price
          /\ screen[i].base = data.items[1].price
    /\ \A i \in Blocks({"traceback"}) : screen[i].exc # "ZeroDivisionError"

C8_Witness ==
    /\ pc = "pause"
    /\ \E i \in Blocks({"ticker24h"}) :
          screen[i].base = 0 /\ screen[i].current = 4 /\ screen[i].pct = Frac(0, 1)

\* C9: the menu loop ends only when the user selects option 5; after any other
\* input control is back at the menu.
C9_LoopEndsOnlyOnOption5 ==
    /\ pc \in {"exited", "crashed"} => option = "5"
    /\ pc = "exited" <=> (option = "5" /\ pc # "option")

-----------------------------------------------------------------------------
(* The 5-day analysis on series of at least 5 hourly candles.              *)

\* candles whose open times move by a day back, by nothing or by a day forth,
\* from 30 January 1970
DayDeltas == {0 - 1, 0, 1}

RECURSIVE DayAt(_, _)
DayAt(deltas, i) == IF i = 1 THEN 29 ELSE DayAt(deltas, i - 1) + deltas[i - 1]

DailyCandles(deltas, closes) ==
    [i \in 1..Len(closes) |->
        Candle(12, JNum(DayAt(deltas, i) * MinPerDay + 60 * i), JNum(closes[i]))]

\* the closes of a series of n candles: rising, or alternating
ClosePatterns(n) == {[i \in 1..n |-> 2 * i], [i \in 1..n |-> 2 + 4 * (i % 2)]}

DailyCandleLists ==
    UNION {{DailyCandles(deltas, closes) : deltas \in [1..(n - 1) -> DayDeltas],
                                           closes \in ClosePatterns(n)}
           : n \in 5..MaxDailyLen}
        \cup {[i \in 1..5 |-> Candle(12, JNum(((i % 2) * 365 + 29) * MinPerDay), JNum(2 * i))]}

DailyHistResults == HistResultsOf(5, KlineResponsesOf(DailyCandleLists))

Option2Daily == Show5Days(DailyHistResults)

NextDaily == MenuTop \/ Option2Daily \/ PressEnter

SpecDaily == Init /\ [][NextDaily]_vars

DayOfItem(i) == DayKey(data.items[i].ts.v)

DaysSeen == {DayOfItem(i) : i \in 1..Len(data.items)}

FirstSeenAt(day) == CHOOSE i \in 1..Len(data.items) :
                        /\ DayOfItem(i) = day
                        /\ \A j \in 1..(i - 1) : DayOfItem(j) # day

PointsOf(day) == {i \in 1..Len(data.items) : DayOfItem(i) = day}

RECURSIVE SumOver(_)
SumOver(points) ==
    IF points = {} THEN 0
    ELSE LET i == CHOOSE x \in points : TRUE
         IN  data.items[i].price + SumOver(points \ {i})

\* C10: in the daily summary of a series of at least 5 points every point is
\* in exactly one day bucket, every bucket is non-empty, the rows printed are
\* those of the (at most 5) days first seen last, in the order the days first
\* appear, and each row's value is the sum of its day's prices divided by the
\* number of its day's points.
C10_DailySummary ==
    \A b \in Blocks({"daily"}) :
        LET buckets == screen[b].prices_by_day
            rows == screen[b].rows
        IN  /\ Len(data.items) >= 5
            /\ \A i \in 1..Len(data.items) :
                  Cardinality({k \in 1..Len(buckets) : buckets[k].day = DayOfItem(i)}) = 1
            /\ \A k \in 1..Len(buckets) :
                  /\ buckets[k].prices # <<>>
                  /\ Len(buckets[k].prices) = Cardinality(PointsOf(buckets[k].day))
            /\ Len(rows) = Min2(5, Cardinality(DaysSeen))
            /\ \A r \in 1..Len(rows) :
                  /\ rows[r].day \in DaysSeen
                  /\ rows[r].average =
                        Frac(SumOver(PointsOf(rows[r].day)), Cardinality(PointsOf(rows[r].day)))
                  /\ r > 1 => FirstSeenAt(rows[r - 1].day) < FirstSeenAt(rows[r].day)
            /\ \A day \in DaysSeen :
                  (\E r \in 1..Len(rows) : rows[r].day = day)
                      \/ \A r \in 1..Len(rows) : FirstSeenAt(day) < FirstSeenAt(rows[r].day)

C10_Witness ==
    /\ pc = "pause"
    /\ \E b \in Blocks({"daily"}) : Len(screen[b].rows) = 5
    /\ Cardinality(DaysSeen) = 6

====
